---- MODULE Spec2Model ----
(***************************************************************************)
(* Model of git-fast-worktree's "add" command (src/main.go).               *)
(*                                                                         *)
(* The main goroutine runs addCmd.RunE top to bottom; its position is pc.  *)
(* Each clone goroutine launched by the loop at main.go:108-120 is one     *)
(* element of tasks, with its own position.  Everything the program does   *)
(* to the outside world is recorded: subprocesses in subprocs, clonefile   *)
(* calls in cloneCalls, lines written to the two output streams in stderr  *)
(* and stdout.  Outcomes of subprocesses, of os.ReadDir and of clonefile   *)
(* are chosen nondeterministically when the call is made.                  *)
(*                                                                         *)
(* Paths are sequences of components; an absolute path starts with "/".    *)
(* The loop variable of main.go:108 is per-iteration (Go >= 1.22, which    *)
(* the atomic.Int64 / cobra toolchain of this repository implies), so each *)
(* goroutine owns the name it was launched for.                            *)
(***************************************************************************)
EXTENDS FiniteSets, Integers, Sequences, TLC

VARIABLES
    pc,           \* position of the main goroutine in RunE / main
    args,         \* positional arguments: <<path>> or <<path, commit-ish>>
    branchCreate, \* --branch / -b value, "" when not given
    branchReset,  \* --force-branch / -B value, "" when not given
    noTrack,      \* --no-track
    dstExists,    \* os.Stat(dst) succeeds at request time
    src,          \* repository root returned by gitToplevel
    dst,          \* absolute destination path
    commitish,    \* args[1] or ""
    worktreeArgs, \* argument vector handed to "git worktree add"
    subprocs,     \* subprocesses run so far, in order
    listed,       \* outcome of os.ReadDir(src): "none" before the call, then "ok" or "err"
    entries,      \* names returned by os.ReadDir(src)
    toClone,      \* entries without ".git", in ReadDir order
    next,         \* index into toClone of the next goroutine to launch
    tasks,        \* launched clone goroutines
    wg,           \* sync.WaitGroup counter
    cloned,       \* atomic.Int64
    cloneErrors,  \* sync.Map: set of <<name, reason>> with unique names
    cloneCalls,   \* unix.Clonefile calls made so far
    ranged,       \* keys of cloneErrors already visited by Range
    errCount,     \* local errCount of RunE
    err,          \* error returned by RunE, "nil" when none
    exitCode,     \* process exit status, -1 while running
    stderr,       \* lines written to the diagnostic stream
    stdout        \* lines written to the primary output stream

vars == <<pc, args, branchCreate, branchReset, noTrack, dstExists, src, dst,
          commitish, worktreeArgs, subprocs, listed, entries, toClone, next,
          tasks, wg, cloned, cloneErrors, cloneCalls, ranged, errCount, err,
          exitCode, stderr, stdout>>

(***************************************************************************)
(* Bounds                                                                  *)
(***************************************************************************)
\* Number of names of NamePool that may appear in the source root.
MaxEntries == 4

\* Names a source root may contain; the first three are the spec's scenario.
NamePool == <<"src", "README.md", ".git", "docs", "Makefile", "lib">>

\* The same names in the byte order os.ReadDir sorts by.
SortedNames == <<".git", "Makefile", "README.md", "docs", "lib", "src">>

EntryNames == {NamePool[i] : i \in 1..MaxEntries}

\* errno values unix.Clonefile may return.
Errnos == {"EACCES", "ENOSPC"}

BranchNames == {"feature/x"}
CommitIshes == {"origin/main"}

\* Working directory of the process and the root git reports for it.
Cwd == <<"/", "repo", "sub">>
RepoRoot == <<"/", "repo">>

\* Destination arguments: one absolute, one relative.
PathArgs == {<<"/", "tmp", "wt">>, <<"wt">>}

(***************************************************************************)
(* Pure helpers                                                            *)
(***************************************************************************)
\* filepath.IsAbs
IsAbs(p) == Len(p) > 0 /\ p[1] = "/"

\* filepath.Abs: an absolute path is kept, a relative one is joined to cwd.
Abs(p) == IF IsAbs(p) THEN p ELSE Cwd \o p

\* filepath.Join(dir, name) for a single-component name.
Join(dir, name) == Append(dir, name)

\* A path as the string handed to a subprocess or printed.
RECURSIVE PathTail(_)
PathTail(p) == IF p = <<>> THEN "" ELSE "/" \o Head(p) \o PathTail(Tail(p))

PathString(p) ==
    IF p = <<>> THEN ""
    ELSE IF IsAbs(p) THEN (IF Len(p) = 1 THEN "/" ELSE PathTail(Tail(p)))
    ELSE Head(p) \o PathTail(Tail(p))

\* Error kinds returned by RunE, by return statement.
ErrNotARepository == "NotARepository"
ErrResolve == "ResolveFailed"
ErrDestinationAlreadyExists == "DestinationAlreadyExists"
ErrConflictingBranchFlags == "ConflictingBranchFlags"
ErrWorktreeRegistrationFailed == "WorktreeRegistrationFailed"
ErrSourceUnreadable == "SourceUnreadable"
ErrIndexResetFailed == "IndexResetFailed"
ErrCloneErrors == "CloneErrors"

\* One line on an output stream.
Line(kind, name, text, n) == [kind |-> kind, name |-> name, text |-> text, n |-> n]

\* One subprocess invocation.
Proc(cmd, argv, ok) == [cmd |-> cmd, argv |-> argv, ok |-> ok]

Init ==
    /\ pc = "locate"
    /\ args \in {<<p>> : p \in PathArgs}
                \cup {<<p, c>> : p \in PathArgs, c \in CommitIshes}
    /\ branchCreate \in {""} \cup BranchNames
    /\ branchReset \in {""} \cup BranchNames
    /\ noTrack \in BOOLEAN
    /\ dstExists \in BOOLEAN
    /\ src = <<>>
    /\ dst = <<>>
    /\ commitish = ""
    /\ worktreeArgs = <<>>
    /\ subprocs = <<>>
    /\ listed = "none"
    /\ entries = <<>>
    /\ toClone = <<>>
    /\ next = 1
    /\ tasks = <<>>
    /\ wg = 0
    /\ cloned = 0
    /\ cloneErrors = {}
    /\ cloneCalls = {}
    /\ ranged = {}
    /\ errCount = 0
    /\ err = "nil"
    /\ exitCode = -1
    /\ stderr = <<>>
    /\ stdout = <<>>

\* return fmt.Errorf(...) from RunE
Fail(kind) == err' = kind /\ pc' = "exit"

\* println(...): the Go builtin writes to standard error.
Println(l) == stderr' = Append(stderr, l)

\* What the child git process writes on the stderr it inherits when it fails.
GitStderr(cmd) == Line("git", cmd, "fatal", 0)

\* Mutant: the error of gitToplevel is ignored and RunE goes on with the
\* (empty) output of the failed command as the root.
LocateRoot_ErrorIgnored ==
    /\ pc = "locate"
    /\ \E ok \in BOOLEAN :
        /\ subprocs' = Append(subprocs, Proc("rev-parse", <<"rev-parse", "--show-toplevel">>, ok))
        /\ src' = (IF ok THEN RepoRoot ELSE <<>>)
        /\ pc' = "abs"
        /\ err' = err
    /\ UNCHANGED <<args, branchCreate, branchReset, noTrack, dstExists, dst,
                   commitish, worktreeArgs, entries, toClone, next, tasks, wg,
                   cloned, cloneErrors, cloneCalls, ranged, errCount,
                   exitCode, stderr, stdout, listed>>

\* gitToplevel(): git rev-parse --show-toplevel (main.go:37-40, 167-174)
LocateRoot ==
    /\ pc = "locate"
    /\ \E ok \in BOOLEAN :
        /\ subprocs' = Append(subprocs, Proc("rev-parse", <<"rev-parse", "--show-toplevel">>, ok))
        /\ IF ok
           THEN src' = RepoRoot /\ pc' = "abs" /\ err' = err
           ELSE Fail(ErrNotARepository) /\ src' = src
    /\ UNCHANGED <<args, branchCreate, branchReset, noTrack, dstExists, dst,
                   commitish, worktreeArgs, entries, toClone, next, tasks, wg,
                   cloned, cloneErrors, cloneCalls, ranged, errCount,
                   exitCode, stderr, stdout, listed>>

\* filepath.Abs(args[0]) and the optional commit-ish (main.go:42-50).
\* Abs can only fail for a relative path, when os.Getwd fails.
ResolveDestination ==
    /\ pc = "abs"
    /\ \E ok \in (IF IsAbs(args[1]) THEN {TRUE} ELSE BOOLEAN) :
        IF ok
        THEN /\ dst' = Abs(args[1])
             /\ commitish' = (IF Len(args) = 2 THEN args[2] ELSE "")
             /\ pc' = "stat"
             /\ err' = err
        ELSE /\ Fail(ErrResolve)
             /\ UNCHANGED <<dst, commitish>>
    /\ UNCHANGED <<args, branchCreate, branchReset, noTrack, dstExists, src,
                   worktreeArgs, subprocs, entries, toClone, next, tasks, wg,
                   cloned, cloneErrors, cloneCalls, ranged, errCount,
                   exitCode, stderr, stdout, listed>>

\* Mutant: the test on the error of os.Stat is inverted (err != nil).
StatSaysExists_Inverted(exists) == ~exists

\* if _, err := os.Stat(dst); err == nil (main.go:52)
StatSaysExists(exists) == exists

\* main.go:52-54
StatDestination ==
    /\ pc = "stat"
    /\ IF StatSaysExists(dstExists)
       THEN Fail(ErrDestinationAlreadyExists)
       ELSE pc' = "flags" /\ err' = err
    /\ UNCHANGED <<args, branchCreate, branchReset, noTrack, dstExists, src,
                   dst, commitish, worktreeArgs, subprocs, entries, toClone,
                   next, tasks, wg, cloned, cloneErrors, cloneCalls, ranged,
                   errCount, exitCode, stderr, stdout, listed>>

\* Mutant: the flags are compared with == instead of !=.
FlagsConflict_Inverted(bc, br) == bc = "" /\ br = ""

\* branchCreate != "" && branchReset != "" (main.go:57)
FlagsConflict(bc, br) == bc # "" /\ br # ""

\* main.go:56-59
ValidateFlags ==
    /\ pc = "flags"
    /\ IF FlagsConflict(branchCreate, branchReset)
       THEN Fail(ErrConflictingBranchFlags)
       ELSE pc' = "register" /\ err' = err
    /\ UNCHANGED <<args, branchCreate, branchReset, noTrack, dstExists, src,
                   dst, commitish, worktreeArgs, subprocs, entries, toClone,
                   next, tasks, wg, cloned, cloneErrors, cloneCalls, ranged,
                   errCount, exitCode, stderr, stdout, listed>>

\* Mutant: -b and -B are attached to the wrong flag.
BranchDirective_Swapped(bc, br) ==
    IF bc # "" THEN <<"-B", bc>>
    ELSE IF br # "" THEN <<"-b", br>>
    ELSE <<"--detach">>

\* The branch directive appended to the argument vector (main.go:66-72).
BranchDirective(bc, br) ==
    IF bc # "" THEN <<"-b", bc>>
    ELSE IF br # "" THEN <<"-B", br>>
    ELSE <<"--detach">>

\* The argument vector of "git worktree add" (main.go:65-79).
WorktreeArgs(s, d, bc, br, nt, c) ==
    <<"-C", PathString(s), "worktree", "add", "--no-checkout">>
        \o BranchDirective(bc, br)
        \o (IF nt THEN <<"--no-track">> ELSE <<>>)
        \o <<PathString(d)>>
        \o (IF c # "" THEN <<c>> ELSE <<>>)

\* Mutant: the error of gitCmd.Run() is ignored and the pipeline goes on.
RegisterWorktree_ErrorIgnored ==
    /\ pc = "register"
    /\ worktreeArgs' = WorktreeArgs(src, dst, branchCreate, branchReset, noTrack, commitish)
    /\ \E ok \in BOOLEAN :
        /\ subprocs' = Append(subprocs, Proc("worktree", worktreeArgs', ok))
        /\ stderr' = Append(stderr, IF ok THEN Line("worktree add", "", "", 0)
                                          ELSE GitStderr("worktree"))
        /\ pc' = "readdir"
        /\ err' = err
    /\ UNCHANGED <<args, branchCreate, branchReset, noTrack, dstExists, src,
                   dst, commitish, entries, toClone, next, tasks, wg, cloned,
                   cloneErrors, cloneCalls, ranged, errCount, exitCode, stdout, listed>>

\* Phase 1: git worktree add --no-checkout (main.go:61-86)
RegisterWorktree ==
    /\ pc = "register"
    /\ worktreeArgs' = WorktreeArgs(src, dst, branchCreate, branchReset, noTrack, commitish)
    /\ \E ok \in BOOLEAN :
        /\ subprocs' = Append(subprocs, Proc("worktree", worktreeArgs', ok))
        /\ IF ok
           THEN /\ Println(Line("worktree add", "", "", 0))
                /\ pc' = "readdir"
                /\ err' = err
           ELSE /\ stderr' = Append(stderr, GitStderr("worktree"))
                /\ Fail(ErrWorktreeRegistrationFailed)
    /\ UNCHANGED <<args, branchCreate, branchReset, noTrack, dstExists, src,
                   dst, commitish, entries, toClone, next, tasks, wg, cloned,
                   cloneErrors, cloneCalls, ranged, errCount, exitCode, stdout, listed>>

\* os.ReadDir returns the directory's names sorted by filename.
ReadDirOrder(listing) == SelectSeq(SortedNames, LAMBDA n : n \in listing)

\* Mutant: the ".git" entry is not skipped.
SkipGit_Nothing(names) == names

\* The filter loop of main.go:94-100.
SkipGit(names) == SelectSeq(names, LAMBDA n : n # ".git")

\* Mutant: the error of os.ReadDir is ignored and the pipeline goes on with
\* no entries.
ReadDir_ErrorIgnored ==
    /\ pc = "readdir"
    /\ \/ /\ \E listing \in SUBSET EntryNames :
               /\ entries' = ReadDirOrder(listing)
               /\ toClone' = SkipGit(entries')
          /\ listed' = "ok"
       \/ /\ listed' = "err"
          /\ UNCHANGED <<entries, toClone>>
    /\ pc' = "launch"
    /\ err' = err
    /\ UNCHANGED <<args, branchCreate, branchReset, noTrack, dstExists, src,
                   dst, commitish, worktreeArgs, subprocs, next, tasks, wg,
                   cloned, cloneErrors, cloneCalls, ranged, errCount,
                   exitCode, stderr, stdout>>

\* Phase 2: read the top-level entries of the source (main.go:88-100)
ReadDir ==
    /\ pc = "readdir"
    /\ \/ /\ \E listing \in SUBSET EntryNames :
               /\ entries' = ReadDirOrder(listing)
               /\ toClone' = SkipGit(entries')
          /\ listed' = "ok"
          /\ pc' = "launch"
          /\ err' = err
       \/ /\ Fail(ErrSourceUnreadable)
          /\ listed' = "err"
          /\ UNCHANGED <<entries, toClone>>
    /\ UNCHANGED <<args, branchCreate, branchReset, noTrack, dstExists, src,
                   dst, commitish, worktreeArgs, subprocs, next, tasks, wg,
                   cloned, cloneErrors, cloneCalls, ranged, errCount,
                   exitCode, stderr, stdout>>

\* A goroutine as launched by "go func() {...}()" for one name.
NewTask(name) == [name |-> name, pc |-> "clone", cerr |-> "nil", calls |-> 0]

\* Mutant: the goroutine is started without wg.Add(1).
Launch_NoAdd ==
    /\ pc = "launch"
    /\ next <= Len(toClone)
    /\ tasks' = Append(tasks, NewTask(toClone[next]))
    /\ next' = next + 1
    /\ UNCHANGED <<pc, args, branchCreate, branchReset, noTrack, dstExists,
                   src, dst, commitish, worktreeArgs, subprocs, entries,
                   toClone, wg, cloned, cloneErrors, cloneCalls, ranged, errCount,
                   err, exitCode, stderr, stdout, listed>>

\* One iteration of the launch loop: wg.Add(1); go func() (main.go:108-120)
Launch ==
    /\ pc = "launch"
    /\ next <= Len(toClone)
    /\ wg' = wg + 1
    /\ tasks' = Append(tasks, NewTask(toClone[next]))
    /\ next' = next + 1
    /\ UNCHANGED <<pc, args, branchCreate, branchReset, noTrack, dstExists,
                   src, dst, commitish, worktreeArgs, subprocs, entries,
                   toClone, cloned, cloneErrors, cloneCalls, ranged, errCount,
                   err, exitCode, stderr, stdout, listed>>

\* Mutant: an empty toClone is rejected as an unreadable source.
LaunchDone_EmptyRejected ==
    /\ pc = "launch"
    /\ next > Len(toClone)
    /\ IF toClone = <<>> THEN Fail(ErrSourceUnreadable)
                         ELSE pc' = "wait" /\ err' = err
    /\ UNCHANGED <<args, branchCreate, branchReset, noTrack, dstExists, src,
                   dst, commitish, worktreeArgs, subprocs, entries, toClone,
                   next, tasks, wg, cloned, cloneErrors, cloneCalls, ranged,
                   errCount, exitCode, stderr, stdout, listed>>

\* The range loop is exhausted (main.go:108, 120)
LaunchDone ==
    /\ pc = "launch"
    /\ next > Len(toClone)
    /\ pc' = "wait"
    /\ UNCHANGED <<args, branchCreate, branchReset, noTrack, dstExists, src,
                   dst, commitish, worktreeArgs, subprocs, entries, toClone,
                   next, tasks, wg, cloned, cloneErrors, cloneCalls, ranged,
                   errCount, err, exitCode, stderr, stdout, listed>>

\* Mutant: the wait group is not waited for.
WaitReleased_NoBarrier(n) == TRUE

\* wg.Wait() returns once the counter is zero.
WaitReleased(n) == n = 0

\* Mutant: the index reset is left out; RunE goes from the barrier straight
\* to listing the clone errors.
Wait_SkipsReset ==
    /\ pc = "wait"
    /\ WaitReleased(wg)
    /\ Println(Line("clonefile", "", "", cloned))
    /\ pc' = "range"
    /\ UNCHANGED <<args, branchCreate, branchReset, noTrack, dstExists, src,
                   dst, commitish, worktreeArgs, subprocs, entries, toClone,
                   next, tasks, wg, cloned, cloneErrors, cloneCalls, ranged,
                   errCount, err, exitCode, stdout, listed>>

\* wg.Wait() and the clonefile status line (main.go:121-122)
Wait ==
    /\ pc = "wait"
    /\ WaitReleased(wg)
    /\ Println(Line("clonefile", "", "", cloned))
    /\ pc' = "reset"
    /\ UNCHANGED <<args, branchCreate, branchReset, noTrack, dstExists, src,
                   dst, commitish, worktreeArgs, subprocs, entries, toClone,
                   next, tasks, wg, cloned, cloneErrors, cloneCalls, ranged,
                   errCount, err, exitCode, stdout, listed>>

\* Phase 4: git -C dst reset --no-refresh (main.go:124-131)
ResetIndex ==
    /\ pc = "reset"
    /\ \E ok \in BOOLEAN :
        /\ subprocs' = Append(subprocs,
               Proc("reset", <<"-C", PathString(dst), "reset", "--no-refresh">>, ok))
        /\ IF ok
           THEN /\ Println(Line("git reset", "", "", 0))
                /\ pc' = "range"
                /\ err' = err
           ELSE /\ stderr' = Append(stderr, GitStderr("reset"))
                /\ Fail(ErrIndexResetFailed)
    /\ UNCHANGED <<args, branchCreate, branchReset, noTrack, dstExists, src,
                   dst, commitish, worktreeArgs, entries, toClone, next, tasks,
                   wg, cloned, cloneErrors, cloneCalls, ranged, errCount,
                   exitCode, stdout, listed>>

\* Keys of a sync.Map.
Keys(m) == {kv[1] : kv \in m}

\* One call of the Range callback (main.go:134-141); sync.Map.Range visits
\* every key once, in no particular order.
RangeStep ==
    /\ pc = "range"
    /\ \E kv \in cloneErrors :
        /\ kv[1] \notin ranged
        /\ ranged' = ranged \cup {kv[1]}
        /\ errCount' = errCount + 1
        /\ stderr' = (IF errCount = 0 THEN Append(stderr, Line("blank", "", "", 0)) ELSE stderr)
                        \o <<Line("clone error", kv[1], kv[2], 0)>>
    /\ UNCHANGED <<pc, args, branchCreate, branchReset, noTrack, dstExists,
                   src, dst, commitish, worktreeArgs, subprocs, entries,
                   toClone, next, tasks, wg, cloned, cloneErrors, cloneCalls,
                   err, exitCode, stdout, listed>>

\* Mutant: the callback returns false, so Range stops after the first key.
RangeFinished_StopsAfterFirst(m, visited) == m = {} \/ visited # {}

\* Range returns when every key has been visited.
RangeFinished(m, visited) == Keys(m) \subseteq visited

\* main.go:141
RangeDone ==
    /\ pc = "range"
    /\ RangeFinished(cloneErrors, ranged)
    /\ pc' = "report"
    /\ UNCHANGED <<args, branchCreate, branchReset, noTrack, dstExists, src,
                   dst, commitish, worktreeArgs, subprocs, entries, toClone,
                   next, tasks, wg, cloned, cloneErrors, cloneCalls, ranged,
                   errCount, err, exitCode, stderr, stdout, listed>>

\* Mutant: the clone-error verdict is returned before the two final lines.
Report_VerdictFirst ==
    /\ pc = "report"
    /\ stderr' = (IF errCount > 0 THEN stderr
                  ELSE stderr \o <<Line("total", "", "", 0),
                                   Line("worktree", "", PathString(dst), 0)>>)
    /\ err' = (IF errCount > 0 THEN ErrCloneErrors ELSE "nil")
    /\ pc' = "exit"
    /\ UNCHANGED <<args, branchCreate, branchReset, noTrack, dstExists, src,
                   dst, commitish, worktreeArgs, subprocs, entries, toClone,
                   next, tasks, wg, cloned, cloneErrors, cloneCalls, ranged,
                   errCount, exitCode, stdout, listed>>

\* Total time, worktree path and the verdict of RunE (main.go:143-149)
Report ==
    /\ pc = "report"
    /\ stderr' = stderr \o <<Line("total", "", "", 0),
                             Line("worktree", "", PathString(dst), 0)>>
    /\ err' = (IF errCount > 0 THEN ErrCloneErrors ELSE "nil")
    /\ pc' = "exit"
    /\ UNCHANGED <<args, branchCreate, branchReset, noTrack, dstExists, src,
                   dst, commitish, worktreeArgs, subprocs, entries, toClone,
                   next, tasks, wg, cloned, cloneErrors, cloneCalls, ranged,
                   errCount, exitCode, stdout, listed>>

\* Mutant: main drops the error rootCmd.Execute returns.
ExitStatus_Dropped(e) == 0

\* if err := rootCmd.Execute(); err != nil { os.Exit(1) } (main.go:161-163)
ExitStatus(e) == IF e # "nil" THEN 1 ELSE 0

\* rootCmd.Execute() returns to main (main.go:159-164); cobra writes the
\* error RunE returned to the command's error stream, standard error.
Exit ==
    /\ pc = "exit"
    /\ stderr' = (IF err # "nil" THEN Append(stderr, Line("error", "", err, errCount)) ELSE stderr)
    /\ exitCode' = ExitStatus(err)
    /\ pc' = "done"
    /\ UNCHANGED <<args, branchCreate, branchReset, noTrack, dstExists, src,
                   dst, commitish, worktreeArgs, subprocs, entries, toClone,
                   next, tasks, wg, cloned, cloneErrors, cloneCalls, ranged,
                   errCount, err, stdout, listed>>

(***************************************************************************)
(* Clone goroutines (main.go:110-119)                                      *)
(***************************************************************************)
\* One unix.Clonefile call.
CloneCall(i, from, to, res) ==
    [task |-> i, from |-> from, to |-> to, flags |-> "CLONE_NOFOLLOW", res |-> res]

\* Mutant: the branches of the error test are swapped (err == nil).
AfterClone_Swapped(res) == IF res = "nil" THEN "store" ELSE "add"

\* Where the goroutine goes after Clonefile returned res (main.go:114-118).
AfterClone(res) == IF res # "nil" THEN "store" ELSE "add"

\* Mutant: a task that finds an error already stored gives up without
\* cloning its entry (the first failure cancels the tasks not yet started).
TaskClone_CancelOnError(i) ==
    /\ tasks[i].pc = "clone"
    /\ IF cloneErrors # {}
       THEN /\ tasks' = [tasks EXCEPT ![i].pc = "return"]
            /\ cloneCalls' = cloneCalls
       ELSE \E res \in {"nil"} \cup Errnos :
            /\ cloneCalls' = cloneCalls \cup
                   {CloneCall(i, Join(src, tasks[i].name), Join(dst, tasks[i].name), res)}
            /\ tasks' = [tasks EXCEPT ![i].cerr = res,
                                      ![i].calls = @ + 1,
                                      ![i].pc = AfterClone(res)]
    /\ UNCHANGED <<pc, args, branchCreate, branchReset, noTrack, dstExists,
                   src, dst, commitish, worktreeArgs, subprocs, entries,
                   toClone, next, wg, cloned, cloneErrors, ranged, errCount,
                   err, exitCode, stderr, stdout, listed>>

\* srcPath, dstPath and unix.Clonefile (main.go:112-114)
TaskClone(i) ==
    /\ tasks[i].pc = "clone"
    /\ \E res \in {"nil"} \cup Errnos :
        /\ cloneCalls' = cloneCalls \cup
               {CloneCall(i, Join(src, tasks[i].name), Join(dst, tasks[i].name), res)}
        /\ tasks' = [tasks EXCEPT ![i].cerr = res,
                                  ![i].calls = @ + 1,
                                  ![i].pc = AfterClone(res)]
    /\ UNCHANGED <<pc, args, branchCreate, branchReset, noTrack, dstExists,
                   src, dst, commitish, worktreeArgs, subprocs, entries,
                   toClone, next, wg, cloned, cloneErrors, ranged, errCount,
                   err, exitCode, stderr, stdout, listed>>

\* Mutant: a single error slot instead of a map; the last store wins.
Store_LastWins(m, k, v) == {<<k, v>>}

\* sync.Map.Store: the value of an existing key is replaced.
Store(m, k, v) == {kv \in m : kv[1] # k} \cup {<<k, v>>}

\* Mutant: wg.Done() is not deferred but called on the success path only,
\* so a task whose clone failed ends without signalling.
TaskStore_NoDone(i) ==
    /\ tasks[i].pc = "store"
    /\ cloneErrors' = Store(cloneErrors, tasks[i].name, tasks[i].cerr)
    /\ tasks' = [tasks EXCEPT ![i].pc = "done"]
    /\ UNCHANGED <<pc, args, branchCreate, branchReset, noTrack, dstExists,
                   src, dst, commitish, worktreeArgs, subprocs, entries,
                   toClone, next, wg, cloned, cloneCalls, ranged, errCount,
                   err, exitCode, stderr, stdout, listed>>

\* cloneErrors.Store(name, err) (main.go:115)
TaskStore(i) ==
    /\ tasks[i].pc = "store"
    /\ cloneErrors' = Store(cloneErrors, tasks[i].name, tasks[i].cerr)
    /\ tasks' = [tasks EXCEPT ![i].pc = "return"]
    /\ UNCHANGED <<pc, args, branchCreate, branchReset, noTrack, dstExists,
                   src, dst, commitish, worktreeArgs, subprocs, entries,
                   toClone, next, wg, cloned, cloneCalls, ranged, errCount,
                   err, exitCode, stderr, stdout, listed>>

\* atomic.Int64.Add(1)
AtomicAdd(c) == c + 1

\* cloned.Add(1) (main.go:117)
TaskAdd(i) ==
    /\ tasks[i].pc = "add"
    /\ cloned' = AtomicAdd(cloned)
    /\ tasks' = [tasks EXCEPT ![i].pc = "return"]
    /\ UNCHANGED <<pc, args, branchCreate, branchReset, noTrack, dstExists,
                   src, dst, commitish, worktreeArgs, subprocs, entries,
                   toClone, next, wg, cloneErrors, cloneCalls, ranged,
                   errCount, err, exitCode, stderr, stdout, listed>>

\* defer wg.Done() (main.go:111)
TaskDone(i) ==
    /\ tasks[i].pc = "return"
    /\ wg' = wg - 1
    /\ tasks' = [tasks EXCEPT ![i].pc = "done"]
    /\ UNCHANGED <<pc, args, branchCreate, branchReset, noTrack, dstExists,
                   src, dst, commitish, worktreeArgs, subprocs, entries,
                   toClone, next, cloned, cloneErrors, cloneCalls, ranged,
                   errCount, err, exitCode, stderr, stdout, listed>>

Next ==
    \/ LocateRoot
    \/ ResolveDestination
    \/ StatDestination
    \/ ValidateFlags
    \/ RegisterWorktree
    \/ ReadDir
    \/ Launch
    \/ LaunchDone
    \/ Wait
    \/ ResetIndex
    \/ RangeStep
    \/ RangeDone
    \/ Report
    \/ Exit
    \/ \E i \in 1..Len(tasks) : TaskClone(i)
    \/ \E i \in 1..Len(tasks) : TaskStore(i)
    \/ \E i \in 1..Len(tasks) : TaskAdd(i)
    \/ \E i \in 1..Len(tasks) : TaskDone(i)

Spec == Init /\ [][Next]_vars

\* The steps of the main goroutine.
MainStep ==
    \/ LocateRoot \/ ResolveDestination \/ StatDestination \/ ValidateFlags
    \/ RegisterWorktree \/ ReadDir \/ Launch \/ LaunchDone \/ Wait
    \/ ResetIndex \/ RangeStep \/ RangeDone \/ Report \/ Exit

\* The steps of the i-th clone goroutine.
TaskStep(i) ==
    /\ i \in 1..Len(tasks)
    /\ (TaskClone(i) \/ TaskStore(i) \/ TaskAdd(i) \/ TaskDone(i))

\* The Go scheduler runs every runnable goroutine, and every subprocess,
\* ReadDir and clonefile call returns: a goroutine that can take a step
\* eventually takes it.
\* The commit-ish and --no-track only end up in the argument vector of
\* "git worktree add" and never decide a branch of RunE, so the runs checked
\* for termination take one value of each; the destination is the relative
\* one, for which path resolution can both succeed and fail.
FairInit ==
    /\ Init
    /\ args = << <<"wt">> >>
    /\ noTrack = FALSE

FairSpec ==
    /\ FairInit /\ [][Next]_vars
    /\ WF_vars(MainStep)
    /\ \A i \in 1..MaxEntries : WF_vars(TaskStep(i))

(***************************************************************************)
(* Observations on the recorded history                                    *)
(***************************************************************************)
Procs(cmd) == {i \in 1..Len(subprocs) : subprocs[i].cmd = cmd}
HasProc(cmd) == Procs(cmd) # {}
ProcOk(cmd) == \E i \in Procs(cmd) : subprocs[i].ok
ProcFailed(cmd) == \E i \in Procs(cmd) : ~subprocs[i].ok

HasLine(kind) == \E i \in 1..Len(stderr) : stderr[i].kind = kind

\* The request passed locate-root and path resolution.
RootLocated == ProcOk("rev-parse")
Resolved == dst # <<>>

\* The main goroutine is past wg.Wait().
Joined == pc \in {"reset", "range", "report"} \/ (pc \in {"exit", "done"} /\ listed = "ok")

FailedCalls == {c \in cloneCalls : c.res # "nil"}

BothBranchFlags == branchCreate # "" /\ branchReset # ""

(***************************************************************************)
(* C1                                                                      *)
(***************************************************************************)
\* C1 as stated: whenever the destination already exists the run fails with
\* DestinationAlreadyExists and no subprocess at all (not even rev-parse)
\* and no clone call has been made.
C1_AsStated ==
    (dstExists /\ pc = "done") =>
        /\ err = ErrDestinationAlreadyExists
        /\ subprocs = <<>>
        /\ cloneCalls = {}

\* C1 amended: when the destination already exists, locate-root (rev-parse)
\* runs first and is the only subprocess ever made; no worktree-add, no
\* reset and no clone call is made; and once locate-root and path
\* resolution have succeeded the run fails with DestinationAlreadyExists
\* and a non-zero exit status.
C1_ExistingDestinationRejected ==
    dstExists =>
        /\ \A i \in 1..Len(subprocs) : subprocs[i].cmd = "rev-parse"
        /\ Len(subprocs) <= 1
        /\ cloneCalls = {} /\ tasks = <<>>
        /\ (pc = "done" /\ RootLocated /\ Resolved) =>
               (err = ErrDestinationAlreadyExists /\ exitCode = 1)
        /\ (err = ErrDestinationAlreadyExists) => (RootLocated /\ Resolved)

C1_Witness ==
    /\ dstExists /\ pc = "done"
    /\ err = ErrDestinationAlreadyExists
    /\ Len(subprocs) = 1 /\ subprocs[1].cmd = "rev-parse"

(***************************************************************************)
(* C2                                                                      *)
(***************************************************************************)
\* C2 as stated: with both --branch and --force-branch set the run fails
\* with ConflictingBranchFlags whatever the state of the destination, and
\* no gateway operation (locate root, register, reset) has been invoked.
C2_AsStated ==
    (BothBranchFlags /\ pc = "done") =>
        /\ err = ErrConflictingBranchFlags
        /\ subprocs = <<>>

\* C2 amended: with both flags set the run always fails, and register
\* worktree, reset index and clone are never invoked; locate root is invoked
\* first, and the failure is ConflictingBranchFlags exactly when locate-root
\* and path resolution succeeded and the destination does not exist (an
\* existing destination is reported as DestinationAlreadyExists instead).
C2_ConflictingFlagsRejected ==
    BothBranchFlags =>
        /\ ~HasProc("worktree") /\ ~HasProc("reset")
        /\ cloneCalls = {} /\ tasks = <<>>
        /\ pc = "done" =>
               /\ exitCode = 1
               /\ HasProc("rev-parse")
               /\ (err = ErrConflictingBranchFlags)
                      <=> (RootLocated /\ Resolved /\ ~dstExists)
               /\ (RootLocated /\ Resolved /\ dstExists)
                      => err = ErrDestinationAlreadyExists

C2_Witness ==
    /\ BothBranchFlags /\ pc = "done"
    /\ err = ErrConflictingBranchFlags
    /\ ~dstExists /\ ~HasProc("worktree")

(***************************************************************************)
(* C3                                                                      *)
(***************************************************************************)
EveryCloneSucceeded ==
    /\ Cardinality(cloneCalls) = Len(toClone)
    /\ FailedCalls = {}

\* C3: the exit status is zero exactly when registration, listing, every
\* clone task and the index reset all succeeded, and is non-zero (1) in
\* every other finished run.
C3_ExitStatus ==
    /\ exitCode \in {-1, 0, 1}
    /\ (exitCode = -1) <=> (pc # "done")
    /\ pc = "done" =>
          ((exitCode = 0) <=>
              (ProcOk("worktree") /\ listed = "ok" /\ EveryCloneSucceeded /\ ProcOk("reset")))

C3_Witness ==
    /\ pc = "done" /\ exitCode = 0
    /\ ProcOk("worktree") /\ ProcOk("reset")
    /\ Len(toClone) >= 2 /\ cloned = Len(toClone)

(***************************************************************************)
(* C4                                                                      *)
(***************************************************************************)
\* C4: if exactly one of the N clone calls failed, then after the fan-out
\* the failures mapping holds exactly that entry (with its reason),
\* clonedCount is N-1, the index reset is invoked afterwards, and when the
\* reset succeeds the run ends with the clone-errors verdict (partial
\* failure) rather than a fatal one.
C4_SingleCloneFailure ==
    (Joined /\ Cardinality(FailedCalls) = 1) =>
        /\ \A c \in FailedCalls : cloneErrors = {<<tasks[c.task].name, c.res>>}
        /\ cloned = Len(toClone) - 1
        /\ pc # "reset" => HasProc("reset")
        /\ (pc = "done" /\ ProcOk("reset")) => (err = ErrCloneErrors /\ exitCode = 1)
        /\ (pc = "done" /\ ~ProcOk("reset")) => err = ErrIndexResetFailed

C4_Witness ==
    /\ pc = "done"
    /\ Len(toClone) >= 3
    /\ Cardinality(FailedCalls) = 1
    /\ ProcOk("reset")
    /\ err = ErrCloneErrors

(***************************************************************************)
(* C5                                                                      *)
(***************************************************************************)
\* C5: with N entries other than ".git" and every clonefile call
\* succeeding, once the main goroutine is past the barrier clonedCount is N
\* and the failures mapping is empty, in every interleaving of the tasks.
C5_AllClonesCounted ==
    (Joined /\ FailedCalls = {}) =>
        /\ cloned = Len(toClone)
        /\ cloned = Cardinality({n \in {entries[i] : i \in 1..Len(entries)} : n # ".git"})
        /\ cloneErrors = {}
        /\ \A i \in 1..Len(stderr) : stderr[i].kind = "clonefile" => stderr[i].n = Len(toClone)

C5_Witness ==
    /\ Joined /\ FailedCalls = {}
    /\ Len(toClone) >= 3
    /\ cloned = Len(toClone)
    /\ HasLine("clonefile")

(***************************************************************************)
(* C6                                                                      *)
(***************************************************************************)
CloneLineKinds == {"clonefile", "blank", "clone error"}

\* C6: if "git worktree add --no-checkout" failed, no clone task has been
\* launched, no clonefile call and no index reset has been made, the source
\* has not been listed, no line about clone entries has been written, and
\* the run is ending or has ended with WorktreeRegistrationFailed and a
\* non-zero exit status.
C6_RegistrationFailureHalts ==
    ProcFailed("worktree") =>
        /\ tasks = <<>> /\ wg = 0 /\ cloneCalls = {} /\ cloned = 0 /\ cloneErrors = {}
        /\ listed = "none"
        /\ ~HasProc("reset")
        /\ \A i \in 1..Len(stderr) : stderr[i].kind \notin CloneLineKinds
        /\ pc \in {"exit", "done"}
        /\ err = ErrWorktreeRegistrationFailed
        /\ pc = "done" => exitCode = 1

C6_Witness ==
    /\ ProcFailed("worktree")
    /\ pc = "done" /\ exitCode = 1
    /\ err = ErrWorktreeRegistrationFailed

(***************************************************************************)
(* C7                                                                      *)
(***************************************************************************)
TotalReported == HasLine("total")
PathReported ==
    \E i \in 1..Len(stderr) :
        stderr[i].kind = "worktree" /\ stderr[i].text = PathString(dst)

\* C7 as stated: every finished run that reached registration (success,
\* partial failure, or a failed registration, listing or index reset) has
\* reported the total elapsed time and the destination path.
C7_AsStated ==
    (pc = "done" /\ HasProc("worktree")) => (TotalReported /\ PathReported)

\* C7 amended: the total elapsed time and the destination path are reported
\* on exactly the runs whose index reset succeeded, that is on success and
\* on partial failure; a run that fails in locate-root, validation,
\* registration, listing or index reset reports neither.
C7_ReportedIffResetSucceeded ==
    /\ (TotalReported \/ HasLine("worktree")) =>
           (ProcOk("reset") /\ TotalReported /\ PathReported /\ pc \in {"exit", "done"})
    /\ pc = "done" => ((TotalReported /\ PathReported) <=> ProcOk("reset"))
    /\ pc = "done" => (ProcOk("reset") <=> err \in {"nil", ErrCloneErrors})

C7_Witness ==
    /\ pc = "done" /\ err = ErrCloneErrors
    /\ ProcOk("reset")
    /\ TotalReported /\ PathReported

(***************************************************************************)
(* C8                                                                      *)
(***************************************************************************)
\* Positions of the diagnostic lines for entry name with reason res.
ErrorLines(name, res) ==
    {i \in 1..Len(stderr) : stderr[i] = Line("clone error", name, res, 0)}

EveryFailureListed ==
    \A c \in FailedCalls : ErrorLines(tasks[c.task].name, c.res) # {}

\* C8 as stated: in every finished run in which clone calls failed, each
\* failed entry has its own diagnostic line, also when the index reset
\* failed.
C8_AsStated ==
    (pc = "done" /\ FailedCalls # {}) => EveryFailureListed

\* C8 amended: in every run in which clone calls failed and the index reset
\* succeeded, each failed entry has exactly one diagnostic line with its
\* name and reason once the listing loop is over, and no other entry has
\* one; when the index reset failed no per-entry line is written at all.
C8_FailuresListedAfterReset ==
    /\ (pc \in {"report", "exit", "done"} /\ ProcOk("reset")) =>
          /\ \A c \in FailedCalls :
                 Cardinality(ErrorLines(tasks[c.task].name, c.res)) = 1
          /\ Cardinality({i \in 1..Len(stderr) : stderr[i].kind = "clone error"})
                 = Cardinality(FailedCalls)
          /\ errCount = Cardinality(FailedCalls)
    /\ ~ProcOk("reset") => ~HasLine("clone error")

C8_Witness ==
    /\ pc = "done" /\ ProcOk("reset")
    /\ Cardinality(FailedCalls) >= 2
    /\ EveryFailureListed

(***************************************************************************)
(* C9                                                                      *)
(***************************************************************************)
Listing == {entries[i] : i \in 1..Len(entries)}
Expected == Listing \ {".git"}

\* C9: the tasks launched are for distinct entries of the listing other
\* than ".git"; once the fan-out is over there is exactly one task and
\* exactly one clonefile call per such entry, and the call of the task for
\* entry n clones src/n to dst/n.
C9_OneCloneCallPerEntry ==
    /\ \A i, j \in 1..Len(tasks) : tasks[i].name = tasks[j].name => i = j
    /\ \A i \in 1..Len(tasks) : tasks[i].name \in Expected /\ tasks[i].calls <= 1
    /\ \A c \in cloneCalls :
          /\ c.task \in 1..Len(tasks)
          /\ c.from = src \o <<tasks[c.task].name>>
          /\ c.to = dst \o <<tasks[c.task].name>>
          /\ c.flags = "CLONE_NOFOLLOW"
    /\ Joined =>
          /\ {tasks[i].name : i \in 1..Len(tasks)} = Expected
          /\ \A i \in 1..Len(tasks) : tasks[i].calls = 1
          /\ {c.from : c \in cloneCalls} = {src \o <<n>> : n \in Expected}
          /\ Cardinality(cloneCalls) = Cardinality(Expected)

C9_Witness ==
    /\ Joined
    /\ Listing = {"src", "README.md", ".git"}
    /\ Cardinality(cloneCalls) = 2
    /\ {c.from : c \in cloneCalls} = {<<"/", "repo", "src">>, <<"/", "repo", "README.md">>}

(***************************************************************************)
(* C10                                                                     *)
(***************************************************************************)
Directives == {"--detach", "-b", "-B"}
DirectiveAt(argv) == {i \in 1..Len(argv) : argv[i] \in Directives}

\* C10: the argument vector of every "git worktree add" run holds exactly
\* one branch directive: "-b <name>" when --branch <name> was given,
\* "-B <name>" when --force-branch <name> was given, and "--detach" when
\* neither was given (with or without a commit-ish).
C10_ExactlyOneBranchDirective ==
    \A p \in Procs("worktree") :
        LET argv == subprocs[p].argv IN
        /\ Cardinality(DirectiveAt(argv)) = 1
        /\ \A i \in DirectiveAt(argv) :
              /\ (branchCreate # "") <=> (argv[i] = "-b")
              /\ (branchReset # "") <=> (argv[i] = "-B")
              /\ (branchCreate = "" /\ branchReset = "") <=> (argv[i] = "--detach")
              /\ argv[i] = "-b" => argv[i + 1] = branchCreate
              /\ argv[i] = "-B" => argv[i + 1] = branchReset
              /\ argv[i] = "--detach" => argv[i + 1] \in {"--no-track", PathString(dst)}

C10_Witness ==
    /\ HasProc("worktree")
    /\ branchReset = "feature/x" /\ branchCreate = ""
    /\ \E p \in Procs("worktree") :
          \E i \in 1..Len(subprocs[p].argv) - 1 :
              subprocs[p].argv[i] = "-B" /\ subprocs[p].argv[i + 1] = "feature/x"

(***************************************************************************)
(* C11                                                                     *)
(***************************************************************************)
SucceededCalls == cloneCalls \ FailedCalls

\* The failures mapping the outcomes of the clonefile calls determine.
FailuresOf(calls) == {<<tasks[c.task].name, c.res>> : c \in {d \in calls : d.res # "nil"}}

\* C11: once the fan-out is over, clonedCount and the failures mapping are
\* a function of the outcome each entry's clonefile call had, the same in
\* every order in which the tasks made their calls and published their
\* outcomes: clonedCount is the number of successful calls and the mapping
\* holds exactly the failed entries with their reasons; the verdict and the
\* number of listed failures follow from them alone.
C11_AggregationOrderIndependent ==
    Joined =>
        /\ cloned = Cardinality(SucceededCalls)
        /\ cloneErrors = FailuresOf(cloneCalls)
        /\ \A i \in 1..Len(stderr) :
               stderr[i].kind = "clonefile" => stderr[i].n = Cardinality(SucceededCalls)
        /\ pc \in {"report", "exit", "done"} /\ ProcOk("reset") =>
               /\ ranged = Keys(FailuresOf(cloneCalls))
               /\ errCount = Cardinality(FailedCalls)

C11_Witness ==
    /\ Joined /\ pc = "done"
    /\ Cardinality(FailedCalls) >= 2
    /\ Cardinality(SucceededCalls) >= 1
    /\ \E c, d \in FailedCalls : c.res # d.res

(***************************************************************************)
(* C12                                                                     *)
(***************************************************************************)
PreflightErrors ==
    {ErrNotARepository, ErrDestinationAlreadyExists, ErrConflictingBranchFlags}

NothingCloned ==
    /\ listed = "none" /\ entries = <<>> /\ toClone = <<>>
    /\ tasks = <<>> /\ wg = 0 /\ cloneCalls = {} /\ cloned = 0 /\ cloneErrors = {}
    /\ ~HasProc("reset")

\* C12: a failing locate-root, an existing destination, conflicting branch
\* flags and a failing registration each end RunE at once with their own
\* error; with one of the first three errors "git worktree add" was never
\* run, and with any of the four the source was not listed, no clone task
\* was launched, no clonefile call and no index reset was made and no
\* status line of a later phase was written.
C12_PreflightFailuresHaltAtOnce ==
    /\ ProcFailed("rev-parse") => err = ErrNotARepository
    /\ (RootLocated /\ Resolved /\ dstExists /\ pc # "stat")
           => err = ErrDestinationAlreadyExists
    /\ (RootLocated /\ Resolved /\ ~dstExists /\ BothBranchFlags /\ pc \notin {"stat", "flags"})
           => err = ErrConflictingBranchFlags
    /\ ProcFailed("worktree") => err = ErrWorktreeRegistrationFailed
    /\ err \in PreflightErrors => ~HasProc("worktree") /\ worktreeArgs = <<>>
    /\ err \in PreflightErrors \cup {ErrWorktreeRegistrationFailed} =>
           /\ NothingCloned
           /\ pc \in {"exit", "done"}
           /\ \A i \in 1..Len(stderr) : stderr[i].kind \in {"git", "error"}
           /\ pc = "done" => exitCode = 1

C12_Witness ==
    /\ pc = "done"
    /\ err = ErrNotARepository
    /\ Len(subprocs) = 1 /\ ProcFailed("rev-parse")

(***************************************************************************)
(* C13                                                                     *)
(***************************************************************************)
\* C13: when the listing of the source root holds nothing but possibly
\* ".git", no clone task is launched, clonedCount is 0 and the failures
\* mapping is empty, the index reset is still run, and the run ends with
\* exit status zero when that reset succeeds.
C13_EmptySourceSucceeds ==
    (listed = "ok" /\ Expected = {}) =>
        /\ toClone = <<>> /\ tasks = <<>> /\ wg = 0
        /\ cloneCalls = {} /\ cloned = 0 /\ cloneErrors = {}
        /\ err \in {"nil", ErrIndexResetFailed}
        /\ pc \in {"exit", "done"} => HasProc("reset")
        /\ pc = "done" =>
              /\ ProcOk("reset") => (exitCode = 0 /\ err = "nil" /\ errCount = 0)
              /\ \E i \in 1..Len(stderr) : stderr[i] = Line("clonefile", "", "", 0)

C13_Witness ==
    /\ listed = "ok" /\ Listing = {".git"}
    /\ pc = "done" /\ exitCode = 0
    /\ ProcOk("reset")

(***************************************************************************)
(* C14                                                                     *)
(***************************************************************************)
FailureDetailKinds == {"error", "clone error", "git"}

\* C14 as stated: no failure detail (error message, per-entry clone failure
\* line) is ever written to the primary output stream, and a run whose index
\* reset succeeded has reported the worktree path on the primary output
\* stream.
C14_AsStated ==
    /\ \A i \in 1..Len(stdout) : stdout[i].kind \notin FailureDetailKinds
    /\ (pc = "done" /\ ProcOk("reset")) =>
           \E i \in 1..Len(stdout) :
               stdout[i].kind = "worktree" /\ stdout[i].text = PathString(dst)

(***************************************************************************)
(* C15                                                                     *)
(***************************************************************************)
Running == {i \in 1..Len(tasks) : tasks[i].pc # "done"}

\* The main goroutine has left wg.Wait(): it has printed the counter, or
\* started the index reset, or is reading the failures mapping.
PastBarrier ==
    \/ pc \in {"reset", "range", "report"}
    \/ HasLine("clonefile") \/ HasProc("reset")
    \/ ranged # {} \/ errCount > 0

\* C15: the wait group counts the tasks that have not yet signalled
\* completion, and while any launched task is still running, or any entry
\* is still to be launched, the main goroutine has not left wg.Wait(): the
\* counter has not been read, the index reset has not been started and the
\* failures mapping has not been ranged over.
C15_JoinBarrier ==
    /\ wg = Cardinality(Running)
    /\ PastBarrier => (Running = {} /\ Len(tasks) = Len(toClone) /\ listed = "ok")
    /\ (Running # {} \/ next <= Len(toClone)) => pc \in {"launch", "wait"}

C15_Witness ==
    /\ pc = "wait"
    /\ Len(tasks) >= 3
    /\ Cardinality(Running) = 1
    /\ cloneErrors # {} /\ cloned > 0

(***************************************************************************)
(* C16                                                                     *)
(***************************************************************************)
PhaseOrder == <<"rev-parse", "worktree", "reset">>
StatusOrder == <<"worktree add", "clonefile", "git reset", "total">>

\* The status lines written so far, in order.
StatusLines ==
    LET keep == SelectSeq(stderr, LAMBDA l : l.kind \in {"worktree add", "clonefile", "git reset", "total"})
    IN  [i \in 1..Len(keep) |-> keep[i].kind]

\* C16: the subprocesses run are a prefix of locate root, register
\* worktree, reset index, each started only after the one before succeeded;
\* the source is listed only after a successful registration, tasks exist
\* only after a successful listing and run only while the main goroutine is
\* in the fan-out, the reset starts only after every entry was cloned or
\* failed, the report is written only after a successful reset, the status
\* lines come in phase order, and a run that ends without a fatal error has
\* gone through every phase.
C16_PhasesSequential ==
    /\ Len(subprocs) <= 3
    /\ \A i \in 1..Len(subprocs) :
          /\ subprocs[i].cmd = PhaseOrder[i]
          /\ i > 1 => subprocs[i - 1].ok
    /\ listed # "none" => ProcOk("worktree")
    /\ tasks # <<>> => listed = "ok"
    /\ Running # {} => pc \in {"launch", "wait"}
    /\ HasProc("reset") => (listed = "ok" /\ Cardinality(cloneCalls) = Len(toClone) /\ Running = {})
    /\ (pc \in {"range", "report"} \/ ranged # {} \/ HasLine("total") \/ HasLine("worktree"))
           => ProcOk("reset")
    /\ Len(StatusLines) <= 4
    /\ \A i \in 1..Len(StatusLines) : StatusLines[i] = StatusOrder[i]
    /\ (pc = "done" /\ err \in {"nil", ErrCloneErrors}) =>
          /\ Len(subprocs) = 3 /\ subprocs[3].ok
          /\ listed = "ok"
          /\ StatusLines = StatusOrder

C16_Witness ==
    /\ pc = "done" /\ err = "nil"
    /\ Len(subprocs) = 3
    /\ Len(tasks) >= 2
    /\ StatusLines = StatusOrder

(***************************************************************************)
(* C17                                                                     *)
(***************************************************************************)
SucceededNames == {tasks[c.task].name : c \in SucceededCalls}

\* C17: whatever subset of the clonefile calls fails, no task makes more
\* than one call, and once the fan-out is over every listed entry has been
\* attempted exactly once by its own task, every task has published exactly
\* one outcome (an increment or a stored error, never both), clonedCount
\* plus the size of the failures mapping is the number of listed entries,
\* and the index reset is run next.
C17_NoCancellation ==
    /\ \A i \in 1..Len(tasks) :
          /\ tasks[i].calls <= 1
          /\ Cardinality({c \in cloneCalls : c.task = i}) = tasks[i].calls
    /\ Joined =>
          /\ Len(tasks) = Len(toClone)
          /\ \A i \in 1..Len(tasks) : tasks[i].calls = 1 /\ tasks[i].pc = "done"
          /\ cloned + Cardinality(cloneErrors) = Len(toClone)
          /\ Cardinality(Keys(cloneErrors)) = Cardinality(cloneErrors)
          /\ Keys(cloneErrors) \cap SucceededNames = {}
          /\ Keys(cloneErrors) \cup SucceededNames = Expected
          /\ cloned = Cardinality(SucceededNames)
          /\ pc # "reset" => HasProc("reset")

C17_Witness ==
    /\ pc = "done"
    /\ Len(toClone) >= 3
    /\ Cardinality(FailedCalls) = Len(toClone)
    /\ cloned = 0
    /\ ProcOk("reset")

(***************************************************************************)
(* C18                                                                     *)
(***************************************************************************)
\* C18: if os.ReadDir fails after a successful registration, RunE returns
\* at once with SourceUnreadable and the process exits non-zero; no clone
\* task is launched, no clonefile call and no index reset is made, and no
\* further subprocess is run, so the registered worktree is left as it is.
C18_ListingFailureHalts ==
    listed = "err" =>
        /\ ProcOk("worktree")
        /\ Len(subprocs) = 2
        /\ entries = <<>> /\ toClone = <<>>
        /\ tasks = <<>> /\ wg = 0 /\ cloneCalls = {} /\ cloned = 0 /\ cloneErrors = {}
        /\ pc \in {"exit", "done"}
        /\ err = ErrSourceUnreadable
        /\ ~HasLine("clonefile") /\ ~HasLine("git reset") /\ ~HasLine("total")
        /\ pc = "done" => exitCode = 1

C18_Witness ==
    /\ listed = "err"
    /\ pc = "done" /\ exitCode = 1
    /\ err = ErrSourceUnreadable
    /\ ProcOk("worktree")

(***************************************************************************)
(* C19                                                                     *)
(***************************************************************************)
\* C19: when every subprocess, ReadDir and clonefile call returns and every
\* runnable goroutine is scheduled, every run eventually ends: the process
\* exits (with status 0 or 1), every launched task has signalled completion
\* and the wait group is back at zero.
C19_Terminates ==
    <>(pc = "done" /\ exitCode \in {0, 1} /\ Running = {} /\ wg = 0)

C19_Witness ==
    /\ pc = "done"
    /\ Len(tasks) >= 3
    /\ FailedCalls # {} /\ SucceededCalls # {}
    /\ wg = 0
====
